---------------------------- MODULE Spec2Model ----------------------------
(***************************************************************************)
(* Model of the leaderboard client (src/src/App.js): the App component's   *)
(* state, its event handlers and the continuations of their network        *)
(* requests.  JavaScript runs one macrotask at a time, so every handler    *)
(* run up to its first await, and every continuation after an await, is    *)
(* one atomic action.  The remote service is not modelled: every response  *)
(* is drawn nondeterministically when it is processed.                     *)
(***************************************************************************)
EXTENDS Integers, Sequences, FiniteSets, TLC

\* ------------------------------------------------------------- bounds
\* Requests (list fetches, single mutations, bulk batches) outstanding at once.
MaxInFlight == 2
\* Bulk-generate batches outstanding at once.
MaxBatches == 1
\* Batches outstanding at once when Generate is clicked whenever it is enabled.
MaxRacing == 2
\* Requests outstanding at once, and dialogs open at once, when every control
\* of the application is driven.
MaxSerial == 1
MaxOpenDialogs == 1
\* Dialogs open at once when the dialogs are opened over one another.
MaxStacked == 2
\* Players in a list delivered to the podium.
MaxPlayers == 4

\* ------------------------------------------------- program constants
\* for (let i = 0; i < 10; i++): the create requests of one bulk batch.
BatchSize == 10
\* setTimeout(() => setMessage(''), 4000): the auto-clear delay, in seconds.
ClearDelay == 4

\* ------------------------------------------------------ value domains
\* Player ids the service may deliver, and each player's name.
Ids == {"a", "b"}
NameOf(id) == IF id = "a" THEN "Ann" ELSE "Bo"

\* response.data of GET /users: ordered lists of distinct players.
UserLists ==
    {<<>>} \cup {<<x>> : x \in Ids}
           \cup {p \in Ids \X Ids : p[1] # p[2]}

\* response.data of GET /users for the podium: ranked lists of up to MaxPlayers
\* distinct players.
PodiumIds == {"a", "b", "c", "d", "e"}
RankedLists ==
    {s \in UNION {[1..n -> PodiumIds] : n \in 0..MaxPlayers} :
        \A i, j \in 1..Len(s) : i # j => s[i] # s[j]}

\* err.message of a rejected axios request.
NetworkError == "Network Error"
ErrMessages == {NetworkError, "Request failed with status code 500"}

\* pointsClaimed as decided by the service.
PointsAwards == {7}

\* Text typed into the Add-Player input; Trim is String.prototype.trim on it.
TypedNames == {"", " ", "Cy"}
Trim(s) == IF s = " " THEN "" ELSE s

\* null (the error state) and null (no user captured for deletion).
null == <<>>
noUser == "null"

\* The ids of a list, users.find(u => u._id === id) as a membership test.
UserIds(list) == {list[i] : i \in 1..Len(list)}

\* s without its i-th element: a settled request leaves the in-flight list.
RemoveAt(s, i) == SubSeq(s, 1, i - 1) \o SubSeq(s, i + 1, Len(s))

VARIABLES
    users,                  \* useState([])
    selectedUserId,         \* useState('')
    newUserName,            \* useState('')
    message,                \* useState(''), a template string as its parts
    isLoading,              \* useState(true)
    error,                  \* useState(null)
    isClearScoresModalOpen, \* useState(false)
    isClearUsersModalOpen,  \* useState(false)
    isAddUserModalOpen,     \* useState(false)
    isDeleteUserModalOpen,  \* useState(false)
    userToDelete,           \* useState(null)
    isActionsMenuOpen,      \* useState(false)
    mounted,                \* the mount effect has run
    fetches,                \* GET /users requests in flight, in issue order
    posts,                  \* single mutation requests in flight, in issue order
    batches,                \* bulk batches awaiting Promise.allSettled
    lastEvent,              \* history: the handler or continuation that ran last
    lastOk,                 \* history: the data of the last fulfilled GET /users
    timers,                 \* the live setTimeout timers: seconds left on each
    sinceSet,               \* history: seconds since setMessage was last called
    limits                  \* the run's bounds, and whether it keeps time

storeVars == <<users, selectedUserId, isLoading, error>>
modalVars == <<isClearScoresModalOpen, isClearUsersModalOpen, isAddUserModalOpen,
               isDeleteUserModalOpen, userToDelete, isActionsMenuOpen>>
vars == <<users, selectedUserId, newUserName, message, isLoading, error,
          isClearScoresModalOpen, isClearUsersModalOpen, isAddUserModalOpen,
          isDeleteUserModalOpen, userToDelete, isActionsMenuOpen, mounted,
          fetches, posts, batches, lastEvent, lastOk, timers, sinceSet, limits>>
notification == <<message, timers, sinceSet>>

noData == <<"none">>

\* The state after construction (the useState initial values), nothing in flight.
Constructed ==
    /\ users = <<>>
    /\ selectedUserId = ""
    /\ newUserName = ""
    /\ message = <<>>
    /\ isLoading = TRUE
    /\ error = null
    /\ isClearScoresModalOpen = FALSE
    /\ isClearUsersModalOpen = FALSE
    /\ isAddUserModalOpen = FALSE
    /\ isDeleteUserModalOpen = FALSE
    /\ userToDelete = noUser
    /\ isActionsMenuOpen = FALSE
    /\ mounted = FALSE
    /\ fetches = <<>>
    /\ posts = <<>>
    /\ batches = <<>>
    /\ lastEvent = [ev |-> "init"]
    /\ lastOk = noData
    /\ timers = {}
    /\ sinceSet = 0

\* Every control of the application is driven, by a user who keeps at most
\* MaxOpenDialogs dialogs open and at most MaxSerial requests outstanding.
Init ==
    /\ Constructed
    /\ limits = [requests |-> MaxSerial, dialogs |-> MaxOpenDialogs, clock |-> FALSE,
                batches |-> MaxBatches]

\* The main view is driven, with up to MaxInFlight requests outstanding.
InitStore ==
    /\ Constructed
    /\ limits = [requests |-> MaxInFlight, dialogs |-> MaxOpenDialogs, clock |-> FALSE,
                batches |-> MaxBatches]

\* The dialogs are driven, up to MaxStacked of them open over one another.
InitStacked ==
    /\ Constructed
    /\ limits = [requests |-> MaxSerial, dialogs |-> MaxStacked, clock |-> FALSE,
                batches |-> MaxBatches]

\* The main view is driven and time is kept, second by second.
InitTimer ==
    /\ Constructed
    /\ limits = [requests |-> MaxInFlight, dialogs |-> MaxOpenDialogs, clock |-> TRUE,
                batches |-> MaxBatches]

\* The main view is driven with up to MaxRacing batches allowed in flight: Generate
\* can be clicked whenever its button is enabled.
InitRace ==
    /\ Constructed
    /\ limits = [requests |-> MaxInFlight, dialogs |-> MaxOpenDialogs, clock |-> FALSE,
                batches |-> MaxRacing]

\* Requests outstanding; a handler that issues one is taken only below the bound.
InFlight == Len(fetches) + Len(posts) + Len(batches)
CanIssue == InFlight < limits.requests

\* The dialogs and menus on display: Add Player, the player list with its
\* Confirm Deletion, Reset All Scores, Delete All Users, the actions menu.
OpenDialogs ==
    (IF isAddUserModalOpen THEN 1 ELSE 0)
    + (IF isDeleteUserModalOpen \/ userToDelete # noUser THEN 1 ELSE 0)
    + (IF isClearScoresModalOpen THEN 1 ELSE 0)
    + (IF isClearUsersModalOpen THEN 1 ELSE 0)
    + (IF isActionsMenuOpen THEN 1 ELSE 0)
CanOpen == OpenDialogs < limits.dialogs

\* ------------------------------------------------------ Notification

\* setMessage(text) and the render it causes: useEffect([message]) runs only
\* when the message differs from the one of the previous render; it then runs
\* the previous effect's cleanup (clearTimeout) and, for a non-empty message,
\* starts a timer of ClearDelay seconds.
setMessage(text) ==
    /\ message' = text
    /\ timers' = IF text = message THEN timers
                 ELSE IF text # <<>> THEN {ClearDelay} ELSE {}
    /\ sinceSet' = 0

\* ------------------------------------------------- Player List Store

\* Variant: fetchUsers without its setError(null).
fetchUsersKeepingError ==
    /\ isLoading' = TRUE
    /\ error' = error
    /\ fetches' = Append(fetches, [stale |-> FALSE])

\* fetchUsers up to its await: setIsLoading(true); setError(null); axios.get.
fetchUsers ==
    /\ isLoading' = TRUE
    /\ error' = null
    /\ fetches' = Append(fetches, [stale |-> FALSE])

\* useEffect(() => { fetchUsers(); }, [fetchUsers]): once, after the first render.
mountEffect ==
    /\ ~mounted
    /\ mounted' = TRUE
    /\ fetchUsers
    /\ lastEvent' = [ev |-> "mount"]
    /\ UNCHANGED <<users, selectedUserId, newUserName, notification, modalVars,
                   posts, batches, lastOk, limits>>

\* The in-flight list once request i has settled: the requests issued before it
\* that are still in flight have been overtaken by a later-issued one.
Settle(i) ==
    [j \in 1..(Len(fetches) - 1) |->
        IF j < i THEN [fetches[j] EXCEPT !.stale = TRUE] ELSE fetches[j + 1]]

\* Variant: the updater without its find, keeping any non-empty prior Selection.
SelectionAfterFetchKeepsPrior(prevId, data) ==
    IF Len(data) > 0
    THEN IF prevId = "" THEN data[1] ELSE prevId
    ELSE ""

\* The updater of setSelectedUserId on a fulfilled fetch, and setSelectedUserId('').
SelectionAfterFetch(prevId, data) ==
    IF Len(data) > 0
    THEN IF prevId = "" \/ prevId \notin UserIds(data) THEN data[1] ELSE prevId
    ELSE ""

\* Variant: a sequencing token, the response of an overtaken request is dropped.
fetchUsersFulfilledLatestOnly(i, data) ==
    /\ i \in 1..Len(fetches)
    /\ users' = IF fetches[i].stale THEN users ELSE data
    /\ selectedUserId' = IF fetches[i].stale THEN selectedUserId
                          ELSE SelectionAfterFetch(selectedUserId, data)
    /\ isLoading' = FALSE
    /\ fetches' = Settle(i)
    /\ lastEvent' = [ev |-> "fetchOk", data |-> data, stale |-> fetches[i].stale,
                     prev |-> selectedUserId]
    /\ lastOk' = data
    /\ UNCHANGED <<newUserName, notification, error, modalVars, mounted, posts, batches,
                   limits>>

\* The continuation of fetchUsers after a fulfilled axios.get, and its finally.
fetchUsersFulfilled(i, data) ==
    /\ i \in 1..Len(fetches)
    /\ users' = data
    /\ selectedUserId' = SelectionAfterFetch(selectedUserId, data)
    /\ isLoading' = FALSE
    /\ fetches' = Settle(i)
    /\ lastEvent' = [ev |-> "fetchOk", data |-> data, stale |-> fetches[i].stale,
                     prev |-> selectedUserId]
    /\ lastOk' = data
    /\ UNCHANGED <<newUserName, notification, error, modalVars, mounted, posts, batches,
                   limits>>

\* The banner text for a service that cannot be reached.
ConnectivityBanner ==
    <<"Network Error: Cannot connect to the server. Please make sure your Node.js backend is running on port 5000 and there are no errors in its terminal.">>

\* Variant: the catch without its 'Network Error' branch.
FetchErrorTextGeneric(msg) == <<"An error occurred: ", msg>>

\* The text setError gets in the catch of fetchUsers.
FetchErrorText(msg) ==
    IF msg = NetworkError
    THEN ConnectivityBanner
    ELSE <<"An error occurred: ", msg>>

\* Variant: the catch without the finally, isLoading is left as it is.
fetchUsersRejectedNoFinally(i, msg) ==
    /\ i \in 1..Len(fetches)
    /\ error' = FetchErrorText(msg)
    /\ fetches' = Settle(i)
    /\ lastEvent' = [ev |-> "fetchFail", msg |-> msg]
    /\ UNCHANGED <<users, selectedUserId, newUserName, notification, isLoading,
                   modalVars, mounted, posts, batches, lastOk, limits>>

\* The catch of fetchUsers after a rejected axios.get, and its finally.
fetchUsersRejected(i, msg) ==
    /\ i \in 1..Len(fetches)
    /\ error' = FetchErrorText(msg)
    /\ isLoading' = FALSE
    /\ fetches' = Settle(i)
    /\ lastEvent' = [ev |-> "fetchFail", msg |-> msg]
    /\ UNCHANGED <<users, selectedUserId, newUserName, notification, modalVars, mounted,
                   posts, batches, lastOk, limits>>

\* ------------------------------------------------------------ Podium

\* topUsers[index] for an index past the end of the array.
undefined == "undefined"

\* Array.prototype.slice(from, to).
Slice(s, from, to) ==
    SubSeq(s, from + 1, IF to < Len(s) THEN to ELSE Len(s))

\* Variant: the podium in rank order, without the reordering.
PodiumInRankOrder(topUsers) ==
    LET podiumOrder == <<0, 1, 2>>
        mapped == [k \in 1..Len(podiumOrder) |->
                     IF podiumOrder[k] < Len(topUsers)
                     THEN topUsers[podiumOrder[k] + 1]
                     ELSE undefined]
    IN  SelectSeq(mapped, LAMBDA user : user # undefined)

\* podiumOrder.map(index => topUsers[index]).filter(Boolean): the users the
\* Podium component displays, left to right.
Podium(topUsers) ==
    LET podiumOrder == <<1, 0, 2>>
        mapped == [k \in 1..Len(podiumOrder) |->
                     IF podiumOrder[k] < Len(topUsers)
                     THEN topUsers[podiumOrder[k] + 1]
                     ELSE undefined]
    IN  SelectSeq(mapped, LAMBDA user : user # undefined)

\* const topThreeUsers = users.slice(0, 3), and the podium rendered from it.
topThreeUsers == Slice(users, 0, 3)
podiumUsers == Podium(topThreeUsers)

\* ------------------------------------------- Selection and claiming

\* (e) => setSelectedUserId(e.target.value): the select's change handler.
selectOnChange(value) ==
    /\ mounted
    /\ selectedUserId' = value
    /\ lastEvent' = [ev |-> "select", value |-> value]
    /\ UNCHANGED <<users, newUserName, notification, isLoading, error, modalVars,
                   mounted, fetches, posts, batches, lastOk, limits>>

\* The select control: disabled while users is empty, one option per user (the
\* placeholder option is disabled and cannot be chosen).
changeSelect ==
    /\ Len(users) > 0
    /\ \E id \in UserIds(users) : selectOnChange(id)

\* The message of the early return of handleClaimPoints.
SelectFirstMessage == <<"Please select a user first.">>

\* Variant: handleClaimPoints without its early return.
handleClaimPointsUnguarded ==
    /\ mounted
    /\ CanIssue
    /\ posts' = Append(posts, [op |-> "claim", id |-> selectedUserId])
    /\ lastEvent' = [ev |-> "claim"]
    /\ UNCHANGED <<storeVars, newUserName, notification, modalVars, mounted, fetches,
                   batches, lastOk, limits>>

\* handleClaimPoints up to its await.
handleClaimPoints ==
    /\ mounted
    /\ IF selectedUserId = ""
       THEN /\ setMessage(SelectFirstMessage)
            /\ UNCHANGED posts
       ELSE /\ CanIssue
            /\ posts' = Append(posts, [op |-> "claim", id |-> selectedUserId])
            /\ UNCHANGED notification
    /\ lastEvent' = [ev |-> "claim"]
    /\ UNCHANGED <<storeVars, newUserName, modalVars, mounted, fetches, batches,
                   lastOk, limits>>

\* The Claim Points button: disabled={!selectedUserId}.
clickClaimPoints ==
    /\ selectedUserId # ""
    /\ handleClaimPoints

\* `You claimed ${pointsClaimed} points for ${updatedUser.name}!`
ClaimedMessage(pointsClaimed, name) ==
    <<"You claimed ", ToString(pointsClaimed), " points for ", name, "!">>

\* The continuation of handleClaimPoints after a fulfilled claim request.
claimFulfilled(i, name, pointsClaimed) ==
    /\ i \in 1..Len(posts)
    /\ posts[i].op = "claim"
    /\ setMessage(ClaimedMessage(pointsClaimed, name))
    /\ fetchUsers
    /\ posts' = RemoveAt(posts, i)
    /\ lastEvent' = [ev |-> "response", op |-> "claim", ok |-> TRUE,
                     name |-> name, points |-> pointsClaimed]
    /\ UNCHANGED <<users, selectedUserId, newUserName, modalVars, mounted,
                   batches, lastOk, limits>>

\* err.message === 'Network Error' ? 'Network Error: Check server connection.' : fallback
FailureMessage(msg, fallback) ==
    IF msg = NetworkError THEN <<"Network Error: Check server connection.">>
    ELSE <<fallback>>

\* Variant: the catch issues the rejected claim again.
claimRejectedRetrying(i, msg) ==
    /\ i \in 1..Len(posts)
    /\ posts[i].op = "claim"
    /\ setMessage(FailureMessage(msg, "Failed to claim points."))
    /\ posts' = Append(RemoveAt(posts, i), posts[i])
    /\ lastEvent' = [ev |-> "response", op |-> "claim", ok |-> FALSE]
    /\ UNCHANGED <<storeVars, newUserName, modalVars, mounted, fetches, batches,
                   lastOk, limits>>

\* The catch of handleClaimPoints after a rejected claim request.
claimRejected(i, msg) ==
    /\ i \in 1..Len(posts)
    /\ posts[i].op = "claim"
    /\ setMessage(FailureMessage(msg, "Failed to claim points."))
    /\ posts' = RemoveAt(posts, i)
    /\ lastEvent' = [ev |-> "response", op |-> "claim", ok |-> FALSE]
    /\ UNCHANGED <<storeVars, newUserName, modalVars, mounted, fetches, batches,
                   lastOk, limits>>

\* ------------------------------------------- Bulk Action Orchestrator

\* The gear button: setIsActionsMenuOpen(!isActionsMenuOpen).
toggleActionsMenu ==
    /\ mounted
    /\ isActionsMenuOpen \/ CanOpen
    /\ isActionsMenuOpen' = ~isActionsMenuOpen
    /\ lastEvent' = [ev |-> "toggleMenu"]
    /\ UNCHANGED <<storeVars, newUserName, notification, isClearScoresModalOpen,
                   isClearUsersModalOpen, isAddUserModalOpen, isDeleteUserModalOpen,
                   userToDelete, mounted, fetches, posts, batches, lastOk, limits>>

\* The Generate 10 Users button (rendered in the open menu, disabled={isLoading}):
\* handleGenerateTenUsers up to its await, all create requests issued, then
\* setIsActionsMenuOpen(false).
clickGenerateTenUsers ==
    /\ mounted
    /\ isActionsMenuOpen
    /\ ~isLoading
    /\ CanIssue
    /\ Len(batches) < limits.batches
    /\ isLoading' = TRUE
    /\ batches' = Append(batches, [pending |-> BatchSize, fulfilled |-> 0])
    /\ isActionsMenuOpen' = FALSE
    /\ lastEvent' = [ev |-> "bulkStart"]
    /\ UNCHANGED <<users, selectedUserId, newUserName, notification, error,
                   isClearScoresModalOpen, isClearUsersModalOpen, isAddUserModalOpen,
                   isDeleteUserModalOpen, userToDelete, mounted, fetches, posts,
                   lastOk, limits>>

\* One create request of batch b settles while others of it are still pending:
\* Promise.allSettled keeps waiting.
bulkCreateSettled(b, ok) ==
    /\ b \in 1..Len(batches)
    /\ batches[b].pending > 1
    /\ batches' = [batches EXCEPT ![b] =
                     [pending |-> @.pending - 1,
                      fulfilled |-> @.fulfilled + (IF ok THEN 1 ELSE 0)]]
    /\ lastEvent' = [ev |-> "bulkSettled"]
    /\ UNCHANGED <<storeVars, newUserName, notification, modalVars, mounted, fetches,
                   posts, lastOk, limits>>

\* Variant: the batch reports success whatever the count.
BulkCreatedAlways(createdCount) == createdCount >= 0

\* if (createdCount > 0): the batch reports success and refreshes.
BulkCreated(createdCount) == createdCount > 0

\* `Generated ${createdCount} new random players!`
GeneratedMessage(createdCount) ==
    <<"Generated ", ToString(createdCount), " new random players!">>

BulkFailedMessage == <<"Failed to generate new users. They might already exist.">>

\* Variant: the continuation runs at the first settlement (a race, not allSettled).
bulkAllSettledAtFirst(b, ok) ==
    /\ b \in 1..Len(batches)
    /\ batches[b].pending >= 1
    /\ LET createdCount == batches[b].fulfilled + (IF ok THEN 1 ELSE 0) IN
         /\ IF BulkCreated(createdCount)
            THEN /\ setMessage(GeneratedMessage(createdCount))
                 /\ error' = null
                 /\ fetches' = Append(fetches, [stale |-> FALSE])
            ELSE /\ setMessage(BulkFailedMessage)
                 /\ UNCHANGED <<error, fetches>>
         /\ lastEvent' = [ev |-> "bulkDone", created |-> createdCount]
    /\ isLoading' = FALSE
    /\ batches' = RemoveAt(batches, b)
    /\ UNCHANGED <<users, selectedUserId, newUserName, modalVars, mounted, posts,
                   lastOk, limits>>

\* The last create request of batch b settles: the continuation of
\* handleGenerateTenUsers after Promise.allSettled, and its finally.  allSettled
\* never rejects, so the catch (setError) is never entered.  fetchUsers() sets
\* isLoading before the finally clears it in the same run.
bulkAllSettled(b, ok) ==
    /\ b \in 1..Len(batches)
    /\ batches[b].pending = 1
    /\ LET createdCount == batches[b].fulfilled + (IF ok THEN 1 ELSE 0) IN
         /\ IF BulkCreated(createdCount)
            THEN /\ setMessage(GeneratedMessage(createdCount))
                 /\ error' = null
                 /\ fetches' = Append(fetches, [stale |-> FALSE])
            ELSE /\ setMessage(BulkFailedMessage)
                 /\ UNCHANGED <<error, fetches>>
         /\ lastEvent' = [ev |-> "bulkDone", created |-> createdCount]
    /\ isLoading' = FALSE
    /\ batches' = RemoveAt(batches, b)
    /\ UNCHANGED <<users, selectedUserId, newUserName, modalVars, mounted, posts,
                   lastOk, limits>>

\* The timer of useEffect([message]) fires: setMessage('').  A run that keeps
\* no time lets the delay elapse within this step.
messageTimeout ==
    /\ timers # {}
    /\ limits.clock => 0 \in timers
    /\ setMessage(<<>>)
    /\ lastEvent' = [ev |-> "timeout"]
    /\ UNCHANGED <<storeVars, newUserName, modalVars, mounted, fetches, posts,
                   batches, lastOk, limits>>

\* One second passes on a run that keeps time; a timer that is due fires first.
tick ==
    /\ limits.clock
    /\ timers # {}
    /\ 0 \notin timers
    /\ timers' = {t - 1 : t \in timers}
    /\ sinceSet' = sinceSet + 1
    /\ lastEvent' = [ev |-> "tick"]
    /\ UNCHANGED <<storeVars, newUserName, message, modalVars, mounted, fetches,
                   posts, batches, lastOk, limits>>

\* --------------------------------------------- Dialogs: Add Player

\* The + button: setIsAddUserModalOpen(true).
openAddUserModal ==
    /\ mounted
    /\ isAddUserModalOpen \/ CanOpen
    /\ isAddUserModalOpen' = TRUE
    /\ lastEvent' = [ev |-> "openAdd"]
    /\ UNCHANGED <<storeVars, newUserName, notification, isClearScoresModalOpen,
                   isClearUsersModalOpen, isDeleteUserModalOpen, userToDelete,
                   isActionsMenuOpen, mounted, fetches, posts, batches, lastOk, limits>>

\* Cancel, or a click on the overlay, of the Add-Player dialog.
cancelAddUser ==
    /\ isAddUserModalOpen
    /\ isAddUserModalOpen' = FALSE
    /\ lastEvent' = [ev |-> "cancelAdd"]
    /\ UNCHANGED <<storeVars, newUserName, notification, isClearScoresModalOpen,
                   isClearUsersModalOpen, isDeleteUserModalOpen, userToDelete,
                   isActionsMenuOpen, mounted, fetches, posts, batches, lastOk, limits>>

\* The name input of the Add-Player dialog: setNewUserName(e.target.value).
typeNewUserName(text) ==
    /\ isAddUserModalOpen
    /\ newUserName' = text
    /\ lastEvent' = [ev |-> "type"]
    /\ UNCHANGED <<storeVars, notification, modalVars, mounted, fetches, posts, batches,
                   lastOk, limits>>

\* Variant: the submit tests the name as typed, without trimming it.
handleAddUserUntrimmed ==
    /\ isAddUserModalOpen
    /\ IF newUserName = ""
       THEN UNCHANGED posts
       ELSE /\ CanIssue
            /\ posts' = Append(posts, [op |-> "add", name |-> newUserName])
    /\ lastEvent' = [ev |-> "submitAdd"]
    /\ UNCHANGED <<storeVars, newUserName, notification, modalVars, mounted, fetches,
                   batches, lastOk, limits>>

\* The form's submit: handleAddUser up to its await.
handleAddUser ==
    /\ isAddUserModalOpen
    /\ IF Trim(newUserName) = ""
       THEN UNCHANGED posts
       ELSE /\ CanIssue
            /\ posts' = Append(posts, [op |-> "add", name |-> newUserName])
    /\ lastEvent' = [ev |-> "submitAdd"]
    /\ UNCHANGED <<storeVars, newUserName, notification, modalVars, mounted, fetches,
                   batches, lastOk, limits>>

\* `User "${response.data.name}" added successfully!`
AddedMessage(name) == <<"User \"", name, "\" added successfully!">>

\* The continuation of handleAddUser after a fulfilled create request.
addFulfilled(i) ==
    /\ i \in 1..Len(posts)
    /\ posts[i].op = "add"
    /\ setMessage(AddedMessage(posts[i].name))
    /\ newUserName' = ""
    /\ isAddUserModalOpen' = FALSE
    /\ fetchUsers
    /\ posts' = RemoveAt(posts, i)
    /\ lastEvent' = [ev |-> "response", op |-> "add", ok |-> TRUE]
    /\ UNCHANGED <<users, selectedUserId, isClearScoresModalOpen,
                   isClearUsersModalOpen, isDeleteUserModalOpen, userToDelete,
                   isActionsMenuOpen, mounted, batches, lastOk, limits>>

\* err.response?.data?.message of a rejected create request ("" when absent).
ErrDetails == {"", "User already exists"}

\* `Error: ${err.response?.data?.message || (... 'Failed to add user.')}`
AddErrorMessage(detail, msg) ==
    <<"Error: ">> \o (IF detail # "" THEN <<detail>>
                      ELSE FailureMessage(msg, "Failed to add user."))

\* The catch of handleAddUser after a rejected create request.
addRejected(i, detail, msg) ==
    /\ i \in 1..Len(posts)
    /\ posts[i].op = "add"
    /\ setMessage(AddErrorMessage(detail, msg))
    /\ posts' = RemoveAt(posts, i)
    /\ lastEvent' = [ev |-> "response", op |-> "add", ok |-> FALSE]
    /\ UNCHANGED <<storeVars, newUserName, modalVars, mounted, fetches, batches,
                   lastOk, limits>>

\* ------------------------------------------- Dialogs: Delete a Player

\* The bin button: setIsDeleteUserModalOpen(true).
openDeleteUserModal ==
    /\ mounted
    /\ isDeleteUserModalOpen \/ userToDelete # noUser \/ CanOpen
    /\ isDeleteUserModalOpen' = TRUE
    /\ lastEvent' = [ev |-> "openDelete"]
    /\ UNCHANGED <<storeVars, newUserName, notification, isClearScoresModalOpen,
                   isClearUsersModalOpen, isAddUserModalOpen, userToDelete,
                   isActionsMenuOpen, mounted, fetches, posts, batches, lastOk, limits>>

\* A click on the overlay of the player list dialog: setIsDeleteUserModalOpen(false).
closeDeleteUserModal ==
    /\ isDeleteUserModalOpen
    /\ isDeleteUserModalOpen' = FALSE
    /\ lastEvent' = [ev |-> "closeDelete"]
    /\ UNCHANGED <<storeVars, newUserName, notification, isClearScoresModalOpen,
                   isClearUsersModalOpen, isAddUserModalOpen, userToDelete,
                   isActionsMenuOpen, mounted, fetches, posts, batches, lastOk, limits>>

\* The bin button of one row of the player list dialog: setUserToDelete(user).
pickUserToDelete(user) ==
    /\ isDeleteUserModalOpen
    /\ user \in UserIds(users)
    /\ userToDelete' = user
    /\ lastEvent' = [ev |-> "pickDelete"]
    /\ UNCHANGED <<storeVars, newUserName, notification, isClearScoresModalOpen,
                   isClearUsersModalOpen, isAddUserModalOpen, isDeleteUserModalOpen,
                   isActionsMenuOpen, mounted, fetches, posts, batches, lastOk, limits>>

\* Cancel of the Confirm Deletion dialog: setUserToDelete(null).
cancelDeleteUser ==
    /\ userToDelete # noUser
    /\ userToDelete' = noUser
    /\ lastEvent' = [ev |-> "cancelDelete"]
    /\ UNCHANGED <<storeVars, newUserName, notification, isClearScoresModalOpen,
                   isClearUsersModalOpen, isAddUserModalOpen, isDeleteUserModalOpen,
                   isActionsMenuOpen, mounted, fetches, posts, batches, lastOk, limits>>

\* Delete of the Confirm Deletion dialog (rendered while userToDelete is set):
\* handleDeleteUser up to its await.
handleDeleteUser ==
    /\ userToDelete # noUser
    /\ CanIssue
    /\ posts' = Append(posts, [op |-> "delete", user |-> userToDelete])
    /\ lastEvent' = [ev |-> "confirmDelete"]
    /\ UNCHANGED <<storeVars, newUserName, notification, modalVars, mounted, fetches,
                   batches, lastOk, limits>>

\* `User "${userToDelete.name}" was deleted.`
DeletedMessage(user) == <<"User \"", NameOf(user), "\" was deleted.">>

\* The continuation of handleDeleteUser after a fulfilled delete, and its finally.
deleteFulfilled(i) ==
    /\ i \in 1..Len(posts)
    /\ posts[i].op = "delete"
    /\ setMessage(DeletedMessage(posts[i].user))
    /\ isDeleteUserModalOpen' = FALSE
    /\ userToDelete' = noUser
    /\ fetchUsers
    /\ posts' = RemoveAt(posts, i)
    /\ lastEvent' = [ev |-> "response", op |-> "delete", ok |-> TRUE]
    /\ UNCHANGED <<users, selectedUserId, newUserName, isClearScoresModalOpen,
                   isClearUsersModalOpen, isAddUserModalOpen, isActionsMenuOpen,
                   mounted, batches, lastOk, limits>>

\* Variant: the catch without the finally, the captured player is kept.
deleteRejectedKeepingTarget(i, msg) ==
    /\ i \in 1..Len(posts)
    /\ posts[i].op = "delete"
    /\ setMessage(FailureMessage(msg, "Failed to delete user."))
    /\ posts' = RemoveAt(posts, i)
    /\ lastEvent' = [ev |-> "response", op |-> "delete", ok |-> FALSE]
    /\ UNCHANGED <<storeVars, newUserName, modalVars, mounted, fetches, batches,
                   lastOk, limits>>

\* The catch of handleDeleteUser after a rejected delete, and its finally.
deleteRejected(i, msg) ==
    /\ i \in 1..Len(posts)
    /\ posts[i].op = "delete"
    /\ setMessage(FailureMessage(msg, "Failed to delete user."))
    /\ userToDelete' = noUser
    /\ posts' = RemoveAt(posts, i)
    /\ lastEvent' = [ev |-> "response", op |-> "delete", ok |-> FALSE]
    /\ UNCHANGED <<storeVars, newUserName, isClearScoresModalOpen,
                   isClearUsersModalOpen, isAddUserModalOpen, isDeleteUserModalOpen,
                   isActionsMenuOpen, mounted, fetches, batches, lastOk, limits>>

\* ---------------------------- Dialogs: Reset All Scores, Delete All Users

\* Reset All Scores of the open menu (disabled while users is empty).
clickResetAllScores ==
    /\ isActionsMenuOpen
    /\ Len(users) > 0
    /\ isClearScoresModalOpen' = TRUE
    /\ isActionsMenuOpen' = FALSE
    /\ lastEvent' = [ev |-> "openScores"]
    /\ UNCHANGED <<storeVars, newUserName, notification, isClearUsersModalOpen,
                   isAddUserModalOpen, isDeleteUserModalOpen, userToDelete, mounted,
                   fetches, posts, batches, lastOk, limits>>

\* Variant: Cancel wired to the confirm handler, the reset request is issued.
cancelClearScoresSubmitting ==
    /\ isClearScoresModalOpen
    /\ isClearScoresModalOpen' = FALSE
    /\ posts' = Append(posts, [op |-> "clearScores"])
    /\ lastEvent' = [ev |-> "cancelScores"]
    /\ UNCHANGED <<storeVars, newUserName, notification, isClearUsersModalOpen,
                   isAddUserModalOpen, isDeleteUserModalOpen, userToDelete,
                   isActionsMenuOpen, mounted, fetches, batches, lastOk, limits>>

\* Cancel of the Reset All Scores dialog.
cancelClearScores ==
    /\ isClearScoresModalOpen
    /\ isClearScoresModalOpen' = FALSE
    /\ lastEvent' = [ev |-> "cancelScores"]
    /\ UNCHANGED <<storeVars, newUserName, notification, isClearUsersModalOpen,
                   isAddUserModalOpen, isDeleteUserModalOpen, userToDelete,
                   isActionsMenuOpen, mounted, fetches, posts, batches, lastOk, limits>>

\* Variant: the request is not awaited, fetchUsers() runs in the same step.
handleClearAllScoresNotAwaiting ==
    /\ isClearScoresModalOpen
    /\ CanIssue
    /\ posts' = Append(posts, [op |-> "clearScores"])
    /\ fetchUsers
    /\ lastEvent' = [ev |-> "confirmScores"]
    /\ UNCHANGED <<users, selectedUserId, newUserName, notification, modalVars,
                   mounted, batches, lastOk, limits>>

\* Confirm Reset: handleClearAllScores up to its await.
handleClearAllScores ==
    /\ isClearScoresModalOpen
    /\ CanIssue
    /\ posts' = Append(posts, [op |-> "clearScores"])
    /\ lastEvent' = [ev |-> "confirmScores"]
    /\ UNCHANGED <<storeVars, newUserName, notification, modalVars, mounted, fetches,
                   batches, lastOk, limits>>

\* The continuation of handleClearAllScores after a fulfilled request, and its finally.
clearScoresFulfilled(i) ==
    /\ i \in 1..Len(posts)
    /\ posts[i].op = "clearScores"
    /\ setMessage(<<"All scores have been cleared successfully.">>)
    /\ fetchUsers
    /\ isClearScoresModalOpen' = FALSE
    /\ posts' = RemoveAt(posts, i)
    /\ lastEvent' = [ev |-> "response", op |-> "clearScores", ok |-> TRUE]
    /\ UNCHANGED <<users, selectedUserId, newUserName, isClearUsersModalOpen,
                   isAddUserModalOpen, isDeleteUserModalOpen, userToDelete,
                   isActionsMenuOpen, mounted, batches, lastOk, limits>>

\* The catch of handleClearAllScores after a rejected request, and its finally.
clearScoresRejected(i, msg) ==
    /\ i \in 1..Len(posts)
    /\ posts[i].op = "clearScores"
    /\ setMessage(FailureMessage(msg, "Failed to clear scores."))
    /\ isClearScoresModalOpen' = FALSE
    /\ posts' = RemoveAt(posts, i)
    /\ lastEvent' = [ev |-> "response", op |-> "clearScores", ok |-> FALSE]
    /\ UNCHANGED <<storeVars, newUserName, isClearUsersModalOpen,
                   isAddUserModalOpen, isDeleteUserModalOpen, userToDelete,
                   isActionsMenuOpen, mounted, fetches, batches, lastOk, limits>>

\* Delete All Users of the open menu (disabled while users is empty).
clickDeleteAllUsers ==
    /\ isActionsMenuOpen
    /\ Len(users) > 0
    /\ isClearUsersModalOpen' = TRUE
    /\ isActionsMenuOpen' = FALSE
    /\ lastEvent' = [ev |-> "openUsers"]
    /\ UNCHANGED <<storeVars, newUserName, notification, isClearScoresModalOpen,
                   isAddUserModalOpen, isDeleteUserModalOpen, userToDelete, mounted,
                   fetches, posts, batches, lastOk, limits>>

\* Cancel of the Delete All Users dialog.
cancelClearUsers ==
    /\ isClearUsersModalOpen
    /\ isClearUsersModalOpen' = FALSE
    /\ lastEvent' = [ev |-> "cancelUsers"]
    /\ UNCHANGED <<storeVars, newUserName, notification, isClearScoresModalOpen,
                   isAddUserModalOpen, isDeleteUserModalOpen, userToDelete,
                   isActionsMenuOpen, mounted, fetches, posts, batches, lastOk, limits>>

\* Confirm Delete All: handleClearAllUsers up to its await.
handleClearAllUsers ==
    /\ isClearUsersModalOpen
    /\ CanIssue
    /\ posts' = Append(posts, [op |-> "clearUsers"])
    /\ lastEvent' = [ev |-> "confirmUsers"]
    /\ UNCHANGED <<storeVars, newUserName, notification, modalVars, mounted, fetches,
                   batches, lastOk, limits>>

\* Variant: the continuation empties the list itself, ahead of the refresh.
clearUsersFulfilledEmptyingList(i) ==
    /\ i \in 1..Len(posts)
    /\ posts[i].op = "clearUsers"
    /\ setMessage(<<"All users have been deleted.">>)
    /\ users' = <<>>
    /\ selectedUserId' = ""
    /\ fetchUsers
    /\ isClearUsersModalOpen' = FALSE
    /\ posts' = RemoveAt(posts, i)
    /\ lastEvent' = [ev |-> "response", op |-> "clearUsers", ok |-> TRUE]
    /\ UNCHANGED <<newUserName, isClearScoresModalOpen,
                   isAddUserModalOpen, isDeleteUserModalOpen, userToDelete,
                   isActionsMenuOpen, mounted, batches, lastOk, limits>>

\* The continuation of handleClearAllUsers after a fulfilled request, and its finally.
clearUsersFulfilled(i) ==
    /\ i \in 1..Len(posts)
    /\ posts[i].op = "clearUsers"
    /\ setMessage(<<"All users have been deleted.">>)
    /\ fetchUsers
    /\ isClearUsersModalOpen' = FALSE
    /\ posts' = RemoveAt(posts, i)
    /\ lastEvent' = [ev |-> "response", op |-> "clearUsers", ok |-> TRUE]
    /\ UNCHANGED <<users, selectedUserId, newUserName, isClearScoresModalOpen,
                   isAddUserModalOpen, isDeleteUserModalOpen, userToDelete,
                   isActionsMenuOpen, mounted, batches, lastOk, limits>>

\* Variant: the catch refreshes the list too.
clearUsersRejectedRefreshing(i, msg) ==
    /\ i \in 1..Len(posts)
    /\ posts[i].op = "clearUsers"
    /\ setMessage(FailureMessage(msg, "Failed to delete all users."))
    /\ fetchUsers
    /\ isClearUsersModalOpen' = FALSE
    /\ posts' = RemoveAt(posts, i)
    /\ lastEvent' = [ev |-> "response", op |-> "clearUsers", ok |-> FALSE]
    /\ UNCHANGED <<users, selectedUserId, newUserName, isClearScoresModalOpen,
                   isAddUserModalOpen, isDeleteUserModalOpen, userToDelete,
                   isActionsMenuOpen, mounted, batches, lastOk, limits>>

\* The catch of handleClearAllUsers after a rejected request, and its finally.
clearUsersRejected(i, msg) ==
    /\ i \in 1..Len(posts)
    /\ posts[i].op = "clearUsers"
    /\ setMessage(FailureMessage(msg, "Failed to delete all users."))
    /\ isClearUsersModalOpen' = FALSE
    /\ posts' = RemoveAt(posts, i)
    /\ lastEvent' = [ev |-> "response", op |-> "clearUsers", ok |-> FALSE]
    /\ UNCHANGED <<storeVars, newUserName, isClearScoresModalOpen,
                   isAddUserModalOpen, isDeleteUserModalOpen, userToDelete,
                   isActionsMenuOpen, mounted, fetches, batches, lastOk, limits>>

\* ------------------------------------------------------ specifications

\* The responses to the list fetches in flight.
FetchResponses ==
    \/ \E i \in 1..Len(fetches), data \in UserLists : fetchUsersFulfilled(i, data)
    \/ \E i \in 1..Len(fetches), msg \in ErrMessages : fetchUsersRejected(i, msg)

\* The selection and claim controls, and the responses to claims.
ClaimSteps ==
    \/ changeSelect
    \/ clickClaimPoints
    \/ \E i \in 1..Len(posts), id \in Ids, pts \in PointsAwards :
           claimFulfilled(i, NameOf(id), pts)
    \/ \E i \in 1..Len(posts), msg \in ErrMessages : claimRejected(i, msg)

\* The actions menu's bulk generation, and the responses to its requests.
BulkSteps ==
    \/ toggleActionsMenu
    \/ clickGenerateTenUsers
    \/ \E b \in 1..Len(batches), ok \in BOOLEAN : bulkCreateSettled(b, ok)
    \/ \E b \in 1..Len(batches), ok \in BOOLEAN : bulkAllSettled(b, ok)

\* The Add-Player dialog, its create request and the responses to it.
AddSteps ==
    \/ openAddUserModal
    \/ cancelAddUser
    \/ \E text \in TypedNames : typeNewUserName(text)
    \/ handleAddUser
    \/ \E i \in 1..Len(posts) : addFulfilled(i)
    \/ \E i \in 1..Len(posts), detail \in ErrDetails, msg \in ErrMessages :
           addRejected(i, detail, msg)

\* The dialogs of the destructive actions (delete one player, reset all scores,
\* delete all players), their confirmed requests and the responses to them.
ConfirmSteps ==
    \/ openDeleteUserModal
    \/ closeDeleteUserModal
    \/ \E user \in Ids : pickUserToDelete(user)
    \/ cancelDeleteUser
    \/ handleDeleteUser
    \/ \E i \in 1..Len(posts) : deleteFulfilled(i)
    \/ \E i \in 1..Len(posts), msg \in ErrMessages : deleteRejected(i, msg)
    \/ clickResetAllScores
    \/ cancelClearScores
    \/ handleClearAllScores
    \/ \E i \in 1..Len(posts) : clearScoresFulfilled(i)
    \/ \E i \in 1..Len(posts), msg \in ErrMessages : clearScoresRejected(i, msg)
    \/ clickDeleteAllUsers
    \/ cancelClearUsers
    \/ handleClearAllUsers
    \/ \E i \in 1..Len(posts) : clearUsersFulfilled(i)
    \/ \E i \in 1..Len(posts), msg \in ErrMessages : clearUsersRejected(i, msg)

\* The dialogs, their confirmed requests and the responses to them.
DialogSteps ==
    \/ AddSteps
    \/ ConfirmSteps

\* The application as its controls drive it.
Next ==
    \/ mountEffect
    \/ FetchResponses
    \/ ClaimSteps
    \/ BulkSteps
    \/ DialogSteps
    \/ messageTimeout

Spec == Init /\ [][Next]_vars

\* The list store with the main view's selection and claim controls: every
\* way a refresh starts, overlaps and settles, up to MaxInFlight requests
\* outstanding.  The other requests start a refresh exactly as a fulfilled
\* claim does (fetchUsers).
NextStore ==
    \/ mountEffect
    \/ FetchResponses
    \/ ClaimSteps
    \/ messageTimeout

SpecStore == InitStore /\ [][NextStore]_vars

\* The actions menu's bulk generation over the list store: up to MaxBatches
\* batches of BatchSize creates, settling in any order with any outcomes.
NextBulk ==
    \/ mountEffect
    \/ FetchResponses
    \/ BulkSteps
    \/ messageTimeout

SpecBulk == Init /\ [][NextBulk]_vars

\* The handlers of the main view run on any argument, as a direct call does:
\* the change handler on a value the select does not offer, and
\* handleClaimPoints while its button is disabled.
NextHandlers ==
    \/ NextStore
    \/ \E value \in Ids : selectOnChange(value)
    \/ handleClaimPoints

SpecHandlers == InitStore /\ [][NextHandlers]_vars

\* The main view with time kept: Notifications set by claims, seconds passing
\* between them, and the auto-clear timer firing when it is due.
NextTimer ==
    \/ NextStore
    \/ tick

SpecTimer == InitTimer /\ [][NextTimer]_vars

\* The dialogs are opened, filled in and cancelled, and the destructive ones
\* are also confirmed, so that a Cancel can come while a request is in flight.
NextCancel ==
    \/ mountEffect
    \/ FetchResponses
    \/ toggleActionsMenu
    \/ ConfirmSteps
    \/ openAddUserModal
    \/ cancelAddUser
    \/ \E text \in TypedNames : typeNewUserName(text)
    \/ messageTimeout

SpecCancel == Init /\ [][NextCancel]_vars

\* The destructive actions alone.
NextConfirm ==
    \/ mountEffect
    \/ FetchResponses
    \/ toggleActionsMenu
    \/ ConfirmSteps
    \/ messageTimeout

SpecConfirm == Init /\ [][NextConfirm]_vars

\* The destructive actions with their dialogs opened over one another: no
\* handler closes another dialog than its own.
SpecStacked == InitStacked /\ [][NextConfirm]_vars

\* The podium over the list store: the first refresh delivers any list of up to
\* MaxPlayers players, or fails.
NextPodium ==
    \/ mountEffect
    \/ \E i \in 1..Len(fetches), data \in RankedLists : fetchUsersFulfilled(i, data)
    \/ \E i \in 1..Len(fetches), msg \in ErrMessages : fetchUsersRejected(i, msg)

SpecPodium == Init /\ [][NextPodium]_vars

\* The main view with its bulk generation: batches overlap with the refreshes
\* and the claims, up to MaxInFlight requests outstanding.
NextMain ==
    \/ NextStore
    \/ BulkSteps

SpecMain == InitStore /\ [][NextMain]_vars

\* The Add-Player dialog alone.
NextAdd ==
    \/ mountEffect
    \/ FetchResponses
    \/ AddSteps
    \/ messageTimeout

SpecAdd == Init /\ [][NextAdd]_vars

\* The responses to the create requests of the batches.
BulkResponses ==
    \/ \E b \in 1..Len(batches), ok \in BOOLEAN : bulkCreateSettled(b, ok)
    \/ \E b \in 1..Len(batches), ok \in BOOLEAN : bulkAllSettled(b, ok)

\* The responses to the claims.
ClaimResponses ==
    \/ \E i \in 1..Len(posts), id \in Ids, pts \in PointsAwards :
           claimFulfilled(i, NameOf(id), pts)
    \/ \E i \in 1..Len(posts), msg \in ErrMessages : claimRejected(i, msg)

\* The mount effect runs once the first render is committed, and every request
\* that is in flight is answered: its promise settles and its continuation runs.
Responding ==
    /\ WF_vars(mountEffect)
    /\ WF_vars(FetchResponses)
    /\ WF_vars(BulkResponses)
    /\ WF_vars(ClaimResponses)

\* Everything that sets or clears isLoading, with the claims that start a
\* refresh next to a batch: up to MaxInFlight requests outstanding, and every
\* one of them answered.
NextLoading ==
    \/ mountEffect
    \/ FetchResponses
    \/ clickClaimPoints
    \/ ClaimResponses
    \/ toggleActionsMenu
    \/ clickGenerateTenUsers
    \/ BulkResponses

SpecLoading == InitStore /\ [][NextLoading]_vars /\ Responding

\* The same controls with Generate clicked whenever its button is enabled, up
\* to MaxRacing batches outstanding.
SpecRace == InitRace /\ [][NextLoading]_vars

\* ------------------------------------------------------------- claims

\* The step just taken is the aggregation of a bulk batch with k fulfilled creates.
BulkDone(k) == lastEvent'.ev = "bulkDone" /\ lastEvent'.created = k

\* C1: for every k in 0..10, a bulk-generate run with exactly k fulfilled creates
\* sets the Notification once, in its aggregation step (to the success text for
\* k > 0, to the failure text for k = 0; the start of the run and the earlier
\* settlements leave it alone), issues a refresh if and only if k > 0, and
\* never sets the error state (it is left as it was, or cleared by the refresh).
C1_BulkAggregate ==
    [][ /\ lastEvent'.ev \in {"bulkStart", "bulkSettled"} =>
              /\ message' = message
              /\ fetches' = fetches
              /\ error' = error
        /\ \A k \in 0..BatchSize : BulkDone(k) =>
              /\ k > 0 => /\ message' = GeneratedMessage(k)
                          /\ Len(fetches') = Len(fetches) + 1
              /\ k = 0 => /\ message' = BulkFailedMessage
                          /\ fetches' = fetches
              /\ error' \in {error, null}
        /\ lastEvent'.ev = "bulkDone" => lastEvent'.created \in 0..BatchSize
      ]_vars

\* A batch all of whose creates were rejected has just been aggregated: the
\* failure Notification is set and no refresh is in flight.
C1_Witness ==
    /\ lastEvent.ev = "bulkDone"
    /\ lastEvent.created = 0
    /\ message = BulkFailedMessage
    /\ fetches = <<>>

\* The step just taken processed the response to a mutation (for a bulk batch:
\* its aggregation).
MutationObserved == lastEvent'.ev \in {"response", "bulkDone"}
MutationSucceeded ==
    \/ lastEvent'.ev = "response" /\ lastEvent'.ok
    \/ lastEvent'.ev = "bulkDone" /\ lastEvent'.created > 0

C3_FetchSuccessClearsError ==
    lastEvent.ev = "fetchOk" => users = lastEvent.data /\ error = null

\* C4: the step that observes a failed list fetch leaves the Player List and the
\* Selection as they were and sets the error state to a text that is the
\* connectivity banner exactly when the failure is 'Network Error'.
C4_FetchFailurePreserves ==
    [][lastEvent'.ev = "fetchFail" =>
          /\ users' = users
          /\ selectedUserId' = selectedUserId
          /\ error' # null
          /\ (error' = ConnectivityBanner) <=> (lastEvent'.msg = NetworkError)
      ]_vars

\* A list fetch has just failed with a service error while a non-empty Player
\* List and a Selection were held; both are still there.
C4_Witness ==
    /\ lastEvent.ev = "fetchFail"
    /\ lastEvent.msg # NetworkError
    /\ users = <<"a", "b">>
    /\ selectedUserId = "b"
    /\ error = <<"An error occurred: ", lastEvent.msg>>

\* C5: once no refresh is in flight, the Player List is the data of the
\* fulfilled list response that was processed last, whatever the issue order.
C5_LastResolvedWins ==
    (fetches = <<>> /\ lastOk # noData) => users = lastOk

\* The last refresh to resolve was issued before one that resolved earlier, it
\* was fulfilled, and its data is the Player List.
C5_Witness ==
    /\ lastEvent.ev = "fetchOk"
    /\ lastEvent.stale
    /\ fetches = <<>>
    /\ users = lastEvent.data

\* C6 as stated: whenever a list fetch is in flight, isLoading is true.
C6_LoadingWhileFetching ==
    Len(fetches) > 0 => isLoading

\* C7: the step that observes a fulfilled list fetch sets the Selection to the
\* first id of a non-empty result when the prior Selection is empty or not in
\* it, keeps a prior Selection that is in the result, and empties the Selection
\* on an empty result.
C7_SelectionAfterFetch ==
    [][lastEvent'.ev = "fetchOk" =>
          LET data == lastEvent'.data IN
            /\ (data # <<>> /\ (selectedUserId = "" \/ selectedUserId \notin UserIds(data)))
                  => selectedUserId' = data[1]
            /\ selectedUserId \in UserIds(data) => selectedUserId' = selectedUserId
            /\ data = <<>> => selectedUserId' = ""
      ]_vars

\* A fulfilled fetch has just replaced a list holding the selected player by one
\* without that player: the Selection is the new first player.
C7_Witness ==
    /\ lastEvent.ev = "fetchOk"
    /\ lastEvent.prev = "a"
    /\ lastEvent.data = <<"b">>
    /\ selectedUserId = "b"

\* C8 as stated: the change handler sets the Selection to its id when that id is
\* in the Player List, and leaves the Selection unchanged when it is not.
C8_SelectOnlyListed ==
    [][lastEvent'.ev = "select" =>
          IF lastEvent'.value \in UserIds(users)
          THEN selectedUserId' = lastEvent'.value
          ELSE selectedUserId' = selectedUserId
      ]_vars

\* C9: handleClaimPoints run with an empty Selection sets the guidance
\* Notification, issues no request of any kind and starts no refresh.
C9_ClaimWithoutSelection ==
    [][(lastEvent'.ev = "claim" /\ selectedUserId = "") =>
          /\ message' = <<"Please select a user first.">>
          /\ posts' = posts
          /\ fetches' = fetches
          /\ batches' = batches
          /\ isLoading' = isLoading
      ]_vars

\* handleClaimPoints has just run with an empty Selection.
C9_Witness ==
    /\ lastEvent.ev = "claim"
    /\ selectedUserId = ""
    /\ message = SelectFirstMessage
    /\ posts = <<>>

\* The claim requests in flight.
ClaimsInFlight(reqs) == Len(SelectSeq(reqs, LAMBDA r : r.op = "claim"))

\* C10: handleClaimPoints run with a Selection issues exactly one claim request,
\* for the selected id; the step that observes its success sets a Notification
\* holding the returned name and points-claimed amount and issues one refresh;
\* the step that observes its failure sets one of the two failure texts, issues
\* no refresh and no further claim request.
C10_ClaimRequest ==
    [][ /\ (lastEvent'.ev = "claim" /\ selectedUserId # "") =>
              /\ posts' = Append(posts, [op |-> "claim", id |-> selectedUserId])
              /\ fetches' = fetches
        /\ (lastEvent'.ev = "response" /\ lastEvent'.op = "claim") =>
              /\ ClaimsInFlight(posts') = ClaimsInFlight(posts) - 1
              /\ Len(posts') = Len(posts) - 1
              /\ IF lastEvent'.ok
                 THEN /\ \E j \in 1..Len(message') : message'[j] = lastEvent'.name
                      /\ \E j \in 1..Len(message') :
                            message'[j] = ToString(lastEvent'.points)
                      /\ Len(fetches') = Len(fetches) + 1
                 ELSE /\ message' \in {<<"Network Error: Check server connection.">>,
                                       <<"Failed to claim points.">>}
                      /\ fetches' = fetches
      ]_vars

\* A fulfilled claim has just been observed: the Notification names Ann and 7
\* points, and the refresh it started is in flight.
C10_Witness ==
    /\ lastEvent.ev = "response"
    /\ lastEvent.op = "claim"
    /\ lastEvent.ok
    /\ message = <<"You claimed ", "7", " points for ", "Ann", "!">>
    /\ Len(fetches) = 1
    /\ isLoading

\* C11 as stated: a Notification set at any moment, equal or different to the one
\* on display, restarts the auto-clear timer: while a message is visible exactly
\* one timer is live and it fires ClearDelay seconds after the last set.
C11_TimerRestarts ==
    message # <<>> => timers = {ClearDelay - sinceSet}

\* The step just taken processed the response to the request of operation op.
ResponseTo(op) == lastEvent'.ev = "response" /\ lastEvent'.op = op

\* C12: the step that observes the response to a confirmed destructive request
\* leaves that action's confirmation dialog closed and sets the Notification
\* to the success text when the request was fulfilled and to one of the two
\* failure texts when it was rejected; after delete-one no player is captured.
C12_ConfirmClosesDialog ==
    [][ /\ ResponseTo("clearScores") =>
              /\ ~isClearScoresModalOpen'
              /\ IF lastEvent'.ok
                 THEN message' = <<"All scores have been cleared successfully.">>
                 ELSE message' \in {<<"Network Error: Check server connection.">>,
                                    <<"Failed to clear scores.">>}
        /\ ResponseTo("clearUsers") =>
              /\ ~isClearUsersModalOpen'
              /\ IF lastEvent'.ok
                 THEN message' = <<"All users have been deleted.">>
                 ELSE message' \in {<<"Network Error: Check server connection.">>,
                                    <<"Failed to delete all users.">>}
        /\ ResponseTo("delete") =>
              /\ userToDelete' = noUser
              /\ IF lastEvent'.ok
                 THEN \E u \in Ids : message' = <<"User \"", NameOf(u), "\" was deleted.">>
                 ELSE message' \in {<<"Network Error: Check server connection.">>,
                                    <<"Failed to delete user.">>}
      ]_vars

\* A rejected delete-one has just been observed: the failure Notification is set
\* and no player is captured, so the Confirm Deletion dialog is closed.
C12_Witness ==
    /\ lastEvent.ev = "response"
    /\ lastEvent.op = "delete"
    /\ ~lastEvent.ok
    /\ userToDelete = noUser
    /\ message = <<"Failed to delete user.">>

\* The step just taken issued no request and processed no response.
NoNetwork == fetches' = fetches /\ posts' = posts /\ batches' = batches

\* C13: Cancel (or the overlay) of the Add-Player dialog and Cancel of the Reset
\* All Scores, Delete All Users and Confirm Deletion dialogs each leave their
\* dialog closed and issue no request; after the Cancel of Confirm Deletion no
\* player is captured for deletion.
C13_CancelClosesOnly ==
    [][ /\ lastEvent'.ev = "cancelAdd" => ~isAddUserModalOpen' /\ NoNetwork
        /\ lastEvent'.ev = "cancelScores" => ~isClearScoresModalOpen' /\ NoNetwork
        /\ lastEvent'.ev = "cancelUsers" => ~isClearUsersModalOpen' /\ NoNetwork
        /\ lastEvent'.ev = "cancelDelete" => userToDelete' = noUser /\ NoNetwork
      ]_vars

\* Confirm Deletion has just been cancelled while the delete request of an
\* earlier confirm was still in flight: no player is captured, the request is
\* still the only one.
C13_Witness ==
    /\ lastEvent.ev = "cancelDelete"
    /\ userToDelete = noUser
    /\ Len(posts) = 1
    /\ posts[1].op = "delete"
    /\ fetches = <<>>

\* C14 as stated: the step that observes the response to a create request leaves
\* the Add-Player dialog closed and sets a Notification of the outcome, whether
\* the create was fulfilled or rejected.
C14_AddClosesDialog ==
    [][ResponseTo("add") =>
          /\ ~isAddUserModalOpen'
          /\ message' # <<>>
          /\ lastEvent'.ok <=> (\E n \in TypedNames : message' = AddedMessage(n))
      ]_vars

\* C15: a submit of the Add-Player form whose name is empty after trimming issues
\* no request and leaves the Notification, every dialog flag, the Player List
\* and the error state as they were.
C15_EmptyNameNoSubmit ==
    [][(lastEvent'.ev = "submitAdd" /\ Trim(newUserName) = "") =>
          /\ NoNetwork
          /\ message' = message
          /\ modalVars' = modalVars
          /\ users' = users
          /\ error' = error
      ]_vars

\* The form has just been submitted with a name of one blank: the dialog is
\* still open and nothing is in flight.
C15_Witness ==
    /\ lastEvent.ev = "submitAdd"
    /\ newUserName = " "
    /\ isAddUserModalOpen
    /\ posts = <<>>
    /\ fetches = <<>>

\* The confirmation dialogs of destructive actions on display.
DestructiveDialogsOpen ==
    (IF isClearScoresModalOpen THEN 1 ELSE 0)
    + (IF isClearUsersModalOpen THEN 1 ELSE 0)
    + (IF userToDelete # noUser THEN 1 ELSE 0)

\* C16 as stated: in every reachable state at most one of Reset All Scores,
\* Delete All Users and Confirm Deletion is open.
C16_OneDestructiveDialog ==
    DestructiveDialogsOpen <= 1

\* C17: for a Player List of n players the podium shows min(3, n) players:
\* none for n = 0, the 1st for n = 1, the 2nd then the 1st for n = 2, and the
\* 2nd, the 1st, the 3rd for n >= 3.
C17_PodiumOrder ==
    LET n == Len(users) IN
      /\ Len(podiumUsers) = (IF n < 3 THEN n ELSE 3)
      /\ n = 0 => podiumUsers = <<>>
      /\ n = 1 => podiumUsers = <<users[1]>>
      /\ n = 2 => podiumUsers = <<users[2], users[1]>>
      /\ n >= 3 => podiumUsers = <<users[2], users[1], users[3]>>

\* Four players are listed: the podium shows the 2nd, the 1st and the 3rd.
C17_Witness ==
    /\ users = <<"a", "b", "c", "d">>
    /\ podiumUsers = <<"b", "a", "c">>

\* C18 as stated: isLoading is true in every state in which a bulk batch is
\* awaiting its aggregation, and the aggregation step clears it.
C18_LoadingDuringBulk ==
    [][ /\ batches' # <<>> => isLoading'
        /\ lastEvent'.ev = "bulkDone" => ~isLoading'
      ]_vars

C20_ListChangesOnFetchOnly ==
    [][ IF lastEvent'.ev = "fetchOk"
        THEN users' = lastEvent'.data
        ELSE users' = users
      ]_vars

\* A delete-all has just been fulfilled: the Player List still holds its players
\* while the refresh is in flight.
C20_Witness ==
    /\ lastEvent.ev = "response"
    /\ lastEvent.op = "clearUsers"
    /\ lastEvent.ok
    /\ users # <<>>
    /\ Len(fetches) = 1

\* C21: the step that starts a bulk-generate run issues all BatchSize create
\* requests with none of them settled; a settlement that leaves creates pending
\* aggregates nothing (no Notification, no refresh, the batch stays); and the
\* aggregation step is the one in which the last pending create of its batch
\* settles, all the others having settled before.
C21_AllIssuedAllSettled ==
    [][ /\ lastEvent'.ev = "bulkStart" =>
              batches' = Append(batches, [pending |-> BatchSize, fulfilled |-> 0])
        /\ lastEvent'.ev = "bulkSettled" =>
              /\ Len(batches') = Len(batches)
              /\ \E b \in 1..Len(batches) :
                    /\ batches[b].pending > 1
                    /\ batches'[b].pending = batches[b].pending - 1
              /\ message' = message
              /\ fetches' = fetches
        /\ lastEvent'.ev = "bulkDone" =>
              \E b \in 1..Len(batches) :
                    /\ batches[b].pending = 1
                    /\ batches' = RemoveAt(batches, b)
      ]_vars

\* Nine creates of a batch have settled, four of them fulfilled: the batch is
\* still waiting, with no Notification and no refresh.
C21_Witness ==
    /\ lastEvent.ev = "bulkSettled"
    /\ batches = <<[pending |-> 1, fulfilled |-> 4]>>
    /\ message = <<>>
    /\ fetches = <<>>

\* The step just taken issued a list fetch.
FetchIssued == Len(fetches') = Len(fetches) + 1

\* C22: a step that sends a mutation request (claim, add, delete-one, reset,
\* delete-all, the creates of a bulk batch) issues no list fetch; a list fetch
\* is issued only by the mount effect, by the step that observes the response
\* to a single mutation, which takes that request out of flight, and by the
\* aggregation of a batch, which takes all its creates out of flight.  So the
\* refresh a mutation triggers is never in flight together with its request.
C22_RefreshAfterOwnResponse ==
    [][ /\ lastEvent'.ev \in {"claim", "submitAdd", "confirmDelete", "confirmScores",
                              "confirmUsers", "bulkStart"} => ~FetchIssued
        /\ FetchIssued =>
              \/ lastEvent'.ev = "mount"
              \/ /\ lastEvent'.ev = "response"
                 /\ \E i \in 1..Len(posts) :
                       /\ posts[i].op = lastEvent'.op
                       /\ posts' = RemoveAt(posts, i)
              \/ /\ lastEvent'.ev = "bulkDone"
                 /\ \E b \in 1..Len(batches) :
                       /\ batches[b].pending = 1
                       /\ batches' = RemoveAt(batches, b)
      ]_vars

\* A reset of all scores has just been fulfilled: its refresh is in flight and
\* its own request no longer is.
C22_Witness ==
    /\ lastEvent.ev = "response"
    /\ lastEvent.op = "clearScores"
    /\ lastEvent.ok
    /\ Len(fetches) = 1
    /\ posts = <<>>

\* C23: with the select control offering only the ids of the current list, the
\* Selection is empty exactly when the Player List is empty, and a non-empty
\* Selection is the id of a player of the current Player List; this holds in
\* every state, so in every state after a list-fetch response is processed.
C23_SelectionConsistent ==
    /\ selectedUserId = "" <=> users = <<>>
    /\ selectedUserId # "" => selectedUserId \in UserIds(users)

\* A fulfilled fetch has just emptied a list whose player "a" was selected, and
\* the Selection is empty again.
C23_Witness ==
    /\ lastEvent.ev = "fetchOk"
    /\ lastEvent.prev = "a"
    /\ lastEvent.data = <<>>
    /\ users = <<>>
    /\ selectedUserId = ""

\* No list fetch and no bulk batch is in flight.
Idle == fetches = <<>> /\ batches = <<>>

\* The steps the program takes by itself: effects, continuations of answered
\* requests, timers.  Every other step is an action of the user.
ProgramEvents ==
    {"init", "mount", "fetchOk", "fetchFail", "response", "bulkSettled", "bulkDone",
     "timeout", "tick"}
UserStep == lastEvent'.ev \notin ProgramEvents

\* C24 as stated: whenever no list fetch and no bulk batch is in flight,
\* isLoading is false.
C24_IdleNotLoading == Idle => ~isLoading

\* C24, amended: once the mount effect has started the first list fetch,
\* whenever no list fetch and no bulk batch is in flight isLoading is false;
\* and with every request answered, once the user takes no more actions
\* isLoading becomes false for good, with no list fetch and no batch in flight.
C24_LoadingEnds ==
    /\ [](mounted /\ Idle => ~isLoading)
    /\ []<><<UserStep>>_vars \/ <>[](Idle /\ ~isLoading)

\* A batch whose ten creates all failed has just been aggregated: no refresh
\* follows, nothing that loads is in flight, and isLoading is false.
C24_Witness ==
    /\ lastEvent.ev = "bulkDone"
    /\ lastEvent.created = 0
    /\ mounted
    /\ Idle
    /\ ~isLoading

\* C25 as stated: at most one bulk batch (ten create requests) is in flight at
\* any time, whatever refreshes and claims run next to it.
C25_OneBatchInFlight == Len(batches) <= 1

=============================================================================
